---- MODULE Spec2Model ----
(***************************************************************************)
(* Session state machine of the GCSE maths practice page (src/app.py):     *)
(* the Streamlit session_state fields, the callbacks check_answer,         *)
(* next_question_handler and get_new_question, and the Restart button.     *)
(* Texts are sequences of one-character strings, so that strip(), upper(), *)
(* split("|||"), substring containment and the [:10] slice are computed.   *)
(***************************************************************************)
EXTENDS Integers, Sequences, FiniteSets, TLC

(* ---------------------------------------------------------------------- *)
(* Bounds of the exploration                                                *)
(* ---------------------------------------------------------------------- *)
\* number of user actions explored from an initial state; it also caps
\* score_correct and the length of history_list
MaxSteps == 5
\* number of user actions explored when the background writers' steps are
\* interleaved with them (SpecSink)
MaxSinkSteps == 4
\* number of user actions explored from each of the 25 questions (SpecTiers)
MaxTierSteps == 3

(* ---------------------------------------------------------------------- *)
(* Program constants                                                        *)
(* ---------------------------------------------------------------------- *)
\* get_new_question: "if st.session_state.question_count > 25"
TotalQuestions == 25
\* get_current_difficulty thresholds
EasyLimit == 7
MediumLimit == 15
\* check_answer: question[:10]
SigPrefixLen == 10

(* ---------------------------------------------------------------------- *)
(* Python string operations                                                 *)
(* ---------------------------------------------------------------------- *)
Min(a, b) == IF a <= b THEN a ELSE b

\* characters str.strip() removes
Whitespace == {" ", "\n", "\t"}

\* s[:n]
Take(s, n) == SubSeq(s, 1, Min(n, Len(s)))

\* s[n:]
Drop(s, n) == SubSeq(s, n + 1, Len(s))

RECURSIVE LStrip(_)
LStrip(s) ==
    IF s # <<>> /\ Head(s) \in Whitespace THEN LStrip(Tail(s)) ELSE s

RECURSIVE RStrip(_)
RStrip(s) ==
    IF s # <<>> /\ s[Len(s)] \in Whitespace
    THEN RStrip(SubSeq(s, 1, Len(s) - 1))
    ELSE s

\* str.strip()
Strip(s) == RStrip(LStrip(s))

Lower ==
    <<"a", "b", "c", "d", "e", "f", "g", "h", "i", "j", "k", "l", "m",
      "n", "o", "p", "q", "r", "s", "t", "u", "v", "w", "x", "y", "z">>

UpperL ==
    <<"A", "B", "C", "D", "E", "F", "G", "H", "I", "J", "K", "L", "M",
      "N", "O", "P", "Q", "R", "S", "T", "U", "V", "W", "X", "Y", "Z">>

UpperChar(c) ==
    IF \E i \in 1..Len(Lower) : Lower[i] = c
    THEN UpperL[CHOOSE i \in 1..Len(Lower) : Lower[i] = c]
    ELSE c

\* str.upper()
Upper(s) == [i \in 1..Len(s) |-> UpperChar(s[i])]

\* s.startswith(p)
StartsWith(s, p) == Len(p) <= Len(s) /\ SubSeq(s, 1, Len(p)) = p

\* "p in s"
Contains(s, p) ==
    \E i \in 0..(Len(s) - Len(p)) : SubSeq(s, i + 1, i + Len(p)) = p

\* s.split(sep): the pieces between the non-overlapping occurrences of sep,
\* scanned left to right
RECURSIVE SplitFrom(_, _, _)
SplitFrom(s, sep, acc) ==
    IF s = <<>> THEN <<acc>>
    ELSE IF StartsWith(s, sep)
         THEN <<acc>> \o SplitFrom(Drop(s, Len(sep)), sep, <<>>)
         ELSE SplitFrom(Tail(s), sep, Append(acc, Head(s)))

Split(s, sep) == SplitFrom(s, sep, <<>>)

\* str(n) for 0 <= n <= 99
DigitChar(d) ==
    CASE d = 0 -> "0" [] d = 1 -> "1" [] d = 2 -> "2" [] d = 3 -> "3"
      [] d = 4 -> "4" [] d = 5 -> "5" [] d = 6 -> "6" [] d = 7 -> "7"
      [] d = 8 -> "8" [] d = 9 -> "9"

IntToStr(n) ==
    IF n < 10 THEN <<DigitChar(n)>>
    ELSE <<DigitChar(n \div 10), DigitChar(n % 10)>>

(* ---------------------------------------------------------------------- *)
(* Literals of the program                                                  *)
(* ---------------------------------------------------------------------- *)
\* get_new_question: the delimiter looked for in the generated text
Marker ==
    <<"|", "|", "|">>

\* get_new_question: answer_text when the delimiter is missing
ParseErrorAnswer ==
    <<"E", "r", "r", "o", "r", " ", "p", "a", "r", "s", "i", "n", "g", " ",
      "a", "n", "s", "w", "e", "r", ".">>

\* check_answer: the token searched in the judge's reply
CorrectToken ==
    <<"C", "O", "R", "R", "E", "C", "T">>

\* the token the reply is documented to carry for a wrong answer
IncorrectToken ==
    <<"I", "N", "C", "O", "R", "R", "E", "C", "T">>

\* get_new_question: question_text once question_count > 25 (after the emoji)
FinishedMsg ==
    <<"Y", "o", "u", " ", "h", "a", "v", "e", " ", "c", "o", "m", "p", "l",
      "e", "t", "e", "d", " ", "a", "l", "l", " ", "2", "5", " ", "q", "u",
      "e", "s", "t", "i", "o", "n", "s", "!", " ", "G", "r", "e", "a", "t",
      " ", "j", "o", "b", ".">>

\* a session_state key that was never assigned
Unset == "unset"

\* check_answer: last_logged separator of f"{question_count}-{question[:10]}"
Dash == <<"-">>

(* ---------------------------------------------------------------------- *)
(* Inputs: what the external services and the user can supply               *)
(* ---------------------------------------------------------------------- *)
\* "Calculate 2+3\n|||\n5\n"
RespA ==
    <<"C", "a", "l", "c", "u", "l", "a", "t", "e", " ", "2", "+", "3", "\n",
      "|", "|", "|", "\n", "5", "\n">>

\* "Calculate 9-2 ||| 7": same first ten characters as RespA
RespB ==
    <<"C", "a", "l", "c", "u", "l", "a", "t", "e", " ", "9", "-", "2", " ",
      "|", "|", "|", " ", "7">>

\* "Find half of 8": no delimiter
RespNoMarker ==
    <<"F", "i", "n", "d", " ", "h", "a", "l", "f", " ", "o", "f", " ", "8">>

\* "1+1|||2|||3": two delimiters
RespTwoMarkers ==
    <<"1", "+", "1", "|", "|", "|", "2", "|", "|", "|", "3">>

\* model.generate_content(prompt).text, or an exception
SourceOutcomes ==
    {[raised |-> FALSE, text |-> t] :
        t \in {RespA, RespB, RespNoMarker, RespTwoMarkers}}
    \cup {[raised |-> TRUE, text |-> <<>>]}

ReplyCorrect ==
    <<"C", "O", "R", "R", "E", "C", "T">>

ReplyIncorrect ==
    <<"I", "N", "C", "O", "R", "R", "E", "C", "T">>

\* "The answer is INCORRECT because..."
ReplyIncorrectBecause ==
    <<"T", "h", "e", " ", "a", "n", "s", "w", "e", "r", " ", "i", "s", " ",
      "I", "N", "C", "O", "R", "R", "E", "C", "T", " ", "b", "e", "c", "a",
      "u", "s", "e", ".", ".", ".">>

ReplyMaybe ==
    <<"M", "A", "Y", "B", "E">>

\* " correct\n"
ReplyLowerCorrect ==
    <<" ", "c", "o", "r", "r", "e", "c", "t", "\n">>

\* judge_model.generate_content(judge_prompt).text, or an exception
OracleOutcomes ==
    {[raised |-> FALSE, text |-> t] :
        t \in {ReplyCorrect, ReplyIncorrect, ReplyIncorrectBecause,
               ReplyMaybe, ReplyLowerCorrect}}
    \cup {[raised |-> TRUE, text |-> <<>>]}

\* placeholder for the outcome of a service that is not called
NoOutcome == [raised |-> FALSE, text |-> <<>>]

\* what the student can have typed into the answer box
UserInputs ==
    {<<>>, <<" ", "5", " ">>, <<"7">>, ParseErrorAnswer}

\* sidebar selectboxes (two of the listed values each)
Grades == {"Year 7 (KS3)", "Year 8 (KS3)"}
Topics == {"Place Value & Rounding", "Decimals"}

(* ---------------------------------------------------------------------- *)
(* Pure functions of the program                                            *)
(* ---------------------------------------------------------------------- *)
get_current_difficulty_strict(q_number) ==
    IF q_number < EasyLimit THEN "Easy (Foundation)"
    ELSE IF q_number < MediumLimit THEN "Medium (Crossover)"
    ELSE "Hard (Higher)"

get_current_difficulty(q_number) ==
    IF q_number <= EasyLimit THEN "Easy (Foundation)"
    ELSE IF q_number <= MediumLimit THEN "Medium (Crossover)"
    ELSE "Hard (Higher)"

\* get_new_question: "if st.session_state.question_count > 25"
PastLastQuestion_early(count) == count >= TotalQuestions

PastLastQuestion_late(count) == count > TotalQuestions + 1

PastLastQuestion(count) == count > TotalQuestions

\* check_answer: "if not user_ans"
NoAnswerGiven_unchecked(user_ans) == FALSE

NoAnswerGiven(user_ans) == user_ans = <<>>

\* check_answer: user_ans.strip() == correct_ans.strip()
ExactMatch_unstripped(user_ans, correct_ans) == user_ans = correct_ans

ExactMatch(user_ans, correct_ans) == Strip(user_ans) = Strip(correct_ans)

\* check_answer: "CORRECT" in response.text.strip().upper()
JudgeSaysCorrect(text) == Contains(Upper(Strip(text)), CorrectToken)

\* check_answer: f"{question_count}-{question[:10]}"
Signature(count, question) ==
    IntToStr(count) \o Dash \o Take(question, SigPrefixLen)

\* get_new_question: the (question_text, answer_text) a generated text yields;
\* ok = FALSE when the tuple unpacking of split("|||") raises
ParseQuestion(text) ==
    IF Contains(text, Marker)
    THEN LET parts == Split(text, Marker)
         IN  IF Len(parts) = 2
             THEN [ok |-> TRUE, q |-> Strip(parts[1]), a |-> Strip(parts[2])]
             ELSE [ok |-> FALSE, q |-> <<>>, a |-> <<>>]
    ELSE [ok |-> TRUE, q |-> text, a |-> ParseErrorAnswer]

(* ---------------------------------------------------------------------- *)
(* State                                                                    *)
(* ---------------------------------------------------------------------- *)
VARIABLES
    \* st.session_state
    question_text, answer_text, user_input, feedback, is_finished,
    score_correct, question_count, history_list, last_logged, reveal_answer,
    opt_grade, opt_topic,
    \* what the last handler did to the outside world
    last_op,        \* the handler that ran last
    source_result,  \* Question Source: "not_called", "ok" or "failed"
    oracle_call,    \* Grading Oracle: the call made, if any, and its outcome
    spawned,        \* rows handed to trigger_background_save
    \* the background writers and the History Sink
    pending,        \* started threads that have not finished
    sheet,          \* rows of the spreadsheet, in the order appended
    dropped,        \* threads that ended without appending their row
    started,        \* number of threads started so far
    \* bookkeeping about the run
    history_sigs,   \* current_q_signature of each entry of history_list
    answered,       \* the presented question already got a verdict
    logged_under,   \* question_count values the presented question was
                    \* logged under
    correct_verdicts, \* Correct verdicts since the session was (re)started
    steps           \* user actions taken so far

session ==
    <<question_text, answer_text, user_input, feedback, is_finished,
      score_correct, question_count, history_list, last_logged, reveal_answer,
      opt_grade, opt_topic>>

effects == <<last_op, source_result, oracle_call, spawned>>

sink == <<pending, sheet, dropped, started>>

ghosts == <<history_sigs, answered, logged_under, correct_verdicts, steps>>

vars == <<session, effects, sink, ghosts>>

\* feedback texts
NoFeedback == [msg |-> "", answer |-> <<>>]
NeedsInput == [msg |-> "Please enter an answer first.", answer |-> <<>>]
CorrectFeedback == [msg |-> "Correct!", answer |-> <<>>]
\* f"Incorrect. The answer was: {correct_ans}"
IncorrectFeedback(correct_ans) ==
    [msg |-> "Incorrect. The answer was: ", answer |-> correct_ans]

NoOracleCall ==
    [called |-> FALSE, question |-> <<>>, reference |-> <<>>,
     student |-> <<>>, raised |-> FALSE, reply |-> <<>>]

(* ---------------------------------------------------------------------- *)
(* get_new_question                                                         *)
(* ---------------------------------------------------------------------- *)
\* count and finished are the question_count and is_finished the function
\* finds, r what the Question Source does if it is called. Sets question_text, answer_text, reveal_answer,
\* feedback, user_input, is_finished, source_result, answered and logged_under.
get_new_question(count, finished, r) ==
    IF PastLastQuestion(count)
    THEN /\ question_text' = FinishedMsg
         /\ is_finished' = TRUE
         /\ source_result' = "not_called"
         /\ UNCHANGED <<answer_text, reveal_answer, feedback, user_input,
                        answered, logged_under>>
    ELSE LET parsed == ParseQuestion(r.text)
         IN  IF r.raised \/ ~parsed.ok
             THEN \* except Exception: st.error(...)
                  /\ source_result' = "failed"
                  /\ is_finished' = finished
                  /\ UNCHANGED <<question_text, answer_text, reveal_answer,
                                 feedback, user_input, answered,
                                 logged_under>>
             ELSE /\ source_result' = "ok"
                  /\ question_text' = parsed.q
                  /\ answer_text' = parsed.a
                  /\ reveal_answer' = FALSE
                  /\ feedback' = NoFeedback
                  /\ user_input' = <<>>
                  /\ answered' = FALSE
                  /\ logged_under' = {}
                  /\ is_finished' = finished

(* ---------------------------------------------------------------------- *)
(* Initialization: the first run of the script                              *)
(* ---------------------------------------------------------------------- *)
\* question_count is 1 on first load; a student who has only clicked Next
\* Question k-1 times is at question k with nothing scored or logged
StartCounts == {1, TotalQuestions - 1}

Init ==
    \E k \in StartCounts, r \in SourceOutcomes :
        LET parsed == ParseQuestion(r.text)
            ok == ~r.raised /\ parsed.ok
        IN  /\ question_text = IF ok THEN parsed.q ELSE <<>>
            /\ answer_text = IF ok THEN parsed.a ELSE Unset
            /\ reveal_answer = IF ok THEN FALSE ELSE Unset
            /\ user_input = <<>>
            /\ feedback = NoFeedback
            /\ is_finished = FALSE
            /\ score_correct = 0
            /\ question_count = k
            /\ history_list = <<>>
            /\ last_logged = <<>>
            /\ opt_grade = "Year 7 (KS3)"
            /\ opt_topic = "Place Value & Rounding"
            /\ last_op = IF k = 1 THEN "Init" ELSE "NextQuestion"
            /\ source_result = IF ok THEN "ok" ELSE "failed"
            /\ oracle_call = NoOracleCall
            /\ spawned = <<>>
            /\ history_sigs = <<>>
            /\ answered = FALSE
            /\ logged_under = {}
            /\ pending = <<>>
            /\ sheet = <<>>
            /\ dropped = {}
            /\ started = 0
            /\ correct_verdicts = 0
            /\ steps = 0

(* ---------------------------------------------------------------------- *)
(* check_answer: the Submit Answer button                                   *)
(* ---------------------------------------------------------------------- *)
\* check_answer: "except: is_correct = False"
OracleFailureDefault_lenient == TRUE

OracleFailureDefault == FALSE

\* check_answer: the negation of "last_logged != current_q_signature"
AlreadyLogged_never(last, signature) == FALSE

AlreadyLogged(last, signature) == last = signature

\* What is followed of a row once it is handed to a thread: the fields the
\* Attempt in history_list carries too (the whole row is in spawned)
RowKey(data_row) ==
    [topic |-> data_row.topic, difficulty |-> data_row.difficulty,
     status |-> data_row.status]

\* trigger_background_save: threading.Thread(...).start(); id numbers the
\* threads in the order started, at is the question_count of the Submit
trigger_background_save_inline(data_row) ==
    /\ sheet' = Append(sheet, [id |-> started + 1, row |-> RowKey(data_row)])
    /\ started' = started + 1
    /\ UNCHANGED <<pending, dropped>>

trigger_background_save(data_row) ==
    /\ pending' = Append(pending, [id |-> started + 1, at |-> question_count,
                                   row |-> RowKey(data_row)])
    /\ started' = started + 1
    /\ UNCHANGED <<sheet, dropped>>

\* typed is the content of the answer box, o what the Grading Oracle does if
\* it is called
check_answer(typed, o) ==
    LET user_ans == typed
        correct_ans == answer_text
        question == question_text
        exact == ExactMatch(user_ans, correct_ans)
        is_correct ==
            IF exact THEN TRUE
            ELSE IF o.raised THEN OracleFailureDefault
            ELSE JudgeSaysCorrect(o.text)
        current_q_signature == Signature(question_count, question)
        status == IF is_correct THEN "Correct" ELSE "Incorrect"
        difficulty == get_current_difficulty(question_count)
        row_data ==
            [name |-> "Student", grade |-> opt_grade, topic |-> opt_topic,
             difficulty |-> difficulty, question |-> question,
             user_ans |-> user_ans, status |-> status]
    IN  /\ user_input' = typed
        /\ IF NoAnswerGiven(user_ans)
           THEN /\ feedback' = NeedsInput
                /\ oracle_call' = NoOracleCall
                /\ spawned' = <<>>
                /\ UNCHANGED <<score_correct, history_list, last_logged,
                               reveal_answer, history_sigs, answered,
                               logged_under, correct_verdicts, sink>>
           ELSE /\ oracle_call' =
                     IF exact THEN NoOracleCall
                     ELSE [called |-> TRUE, question |-> question,
                           reference |-> correct_ans, student |-> user_ans,
                           raised |-> o.raised, reply |-> o.text]
                /\ IF is_correct
                   THEN /\ feedback' = CorrectFeedback
                        /\ score_correct' = score_correct + 1
                        /\ correct_verdicts' = correct_verdicts + 1
                   ELSE /\ feedback' = IncorrectFeedback(correct_ans)
                        /\ UNCHANGED <<score_correct, correct_verdicts>>
                /\ answered' = TRUE
                /\ IF ~AlreadyLogged(last_logged, current_q_signature)
                   THEN /\ history_list' =
                             Append(history_list,
                                    [Q |-> question_count,
                                     Topic |-> opt_topic,
                                     Difficulty |-> difficulty,
                                     Result |-> status])
                        /\ history_sigs' =
                             Append(history_sigs, current_q_signature)
                        /\ logged_under' =
                             logged_under \cup {question_count}
                        /\ spawned' = <<row_data>>
                        /\ trigger_background_save(row_data)
                        /\ last_logged' = current_q_signature
                        /\ reveal_answer' = TRUE
                   ELSE /\ spawned' = <<>>
                        /\ UNCHANGED <<history_list, history_sigs,
                                       logged_under, last_logged,
                                       reveal_answer, sink>>

\* The button is rendered only while not is_finished. When answer_text was
\* never assigned, check_answer raises on its second line and changes nothing.
Submit ==
    /\ ~is_finished
    /\ answer_text # Unset
    /\ steps < MaxSteps
    /\ \E typed \in UserInputs :
          IF NoAnswerGiven(typed) \/ ExactMatch(typed, answer_text)
          THEN check_answer(typed, NoOutcome)
          ELSE \E o \in OracleOutcomes : check_answer(typed, o)
    /\ last_op' = "Submit"
    /\ source_result' = "not_called"
    /\ steps' = steps + 1
    /\ UNCHANGED <<question_text, answer_text, is_finished, question_count,
                   opt_grade, opt_topic>>

(* ---------------------------------------------------------------------- *)
(* next_question_handler: the Next Question button                          *)
(* ---------------------------------------------------------------------- *)
NextQuestion ==
    /\ ~is_finished
    /\ steps < MaxSteps
    /\ question_count' = question_count + 1
    /\ IF PastLastQuestion(question_count + 1)
       THEN get_new_question(question_count + 1, is_finished, NoOutcome)
       ELSE \E r \in SourceOutcomes :
               get_new_question(question_count + 1, is_finished, r)
    /\ last_op' = "NextQuestion"
    /\ oracle_call' = NoOracleCall
    /\ spawned' = <<>>
    /\ steps' = steps + 1
    /\ UNCHANGED <<score_correct, history_list, last_logged, opt_grade,
                   opt_topic, history_sigs, correct_verdicts, sink>>

(* ---------------------------------------------------------------------- *)
(* The sidebar selectboxes: on_change=get_new_question                      *)
(* ---------------------------------------------------------------------- *)
ParameterChange_advancing ==
    /\ steps < MaxSteps
    /\ \/ /\ \E g \in Grades \ {opt_grade} : opt_grade' = g
          /\ UNCHANGED opt_topic
       \/ /\ \E t \in Topics \ {opt_topic} : opt_topic' = t
          /\ UNCHANGED opt_grade
    /\ ~is_finished
    /\ question_count' = question_count + 1
    /\ IF PastLastQuestion(question_count + 1)
       THEN get_new_question(question_count + 1, is_finished, NoOutcome)
       ELSE \E r \in SourceOutcomes :
               get_new_question(question_count + 1, is_finished, r)
    /\ last_op' = "ParameterChange"
    /\ oracle_call' = NoOracleCall
    /\ spawned' = <<>>
    /\ steps' = steps + 1
    /\ UNCHANGED <<score_correct, history_list, last_logged,
                   history_sigs, correct_verdicts, sink>>

ParameterChange ==
    /\ steps < MaxSteps
    /\ \/ /\ \E g \in Grades \ {opt_grade} : opt_grade' = g
          /\ UNCHANGED opt_topic
       \/ /\ \E t \in Topics \ {opt_topic} : opt_topic' = t
          /\ UNCHANGED opt_grade
    /\ IF PastLastQuestion(question_count)
       THEN get_new_question(question_count, is_finished, NoOutcome)
       ELSE \E r \in SourceOutcomes :
               get_new_question(question_count, is_finished, r)
    /\ last_op' = "ParameterChange"
    /\ oracle_call' = NoOracleCall
    /\ spawned' = <<>>
    /\ steps' = steps + 1
    /\ UNCHANGED <<score_correct, question_count, history_list, last_logged,
                   history_sigs, correct_verdicts, sink>>

(* ---------------------------------------------------------------------- *)
(* The Restart Session button                                               *)
(* ---------------------------------------------------------------------- *)
\* get_new_question reads the question_count (1) and is_finished (False) the
\* button has just assigned
RestartScore_kept == score_correct

RestartScore == 0

RestartHistory_kept == history_list

RestartHistory == <<>>

Restart ==
    /\ steps < MaxSteps
    /\ score_correct' = RestartScore
    /\ question_count' = 1
    /\ history_list' = RestartHistory
    /\ \E r \in SourceOutcomes : get_new_question(1, FALSE, r)
    /\ last_op' = "Restart"
    /\ oracle_call' = NoOracleCall
    /\ spawned' = <<>>
    /\ history_sigs' = <<>>
    /\ correct_verdicts' = 0
    /\ steps' = steps + 1
    /\ UNCHANGED <<last_logged, opt_grade, opt_topic, sink>>

Next == Submit \/ NextQuestion \/ ParameterChange \/ Restart

Spec == Init /\ [][Next]_vars

(* ---------------------------------------------------------------------- *)
(* save_to_google_sheet_background: one started thread runs to its end      *)
(* ---------------------------------------------------------------------- *)
Remove(seq, i) == SubSeq(seq, 1, i - 1) \o SubSeq(seq, i + 1, Len(seq))

\* appended is FALSE when get_google_sheet_client() returns None or when
\* open/append_row raises (the exception is printed and the row is lost)
save_to_google_sheet_background_retry(i, appended) ==
    LET thread == pending[i]
    IN  IF appended
        THEN /\ sheet' = Append(sheet, [id |-> thread.id, row |-> thread.row])
             /\ pending' = Remove(pending, i)
             /\ UNCHANGED dropped
        ELSE /\ dropped' = dropped \cup {thread.id}
             /\ UNCHANGED <<sheet, pending>>

save_to_google_sheet_background(i, appended) ==
    LET thread == pending[i]
    IN  /\ pending' = Remove(pending, i)
        /\ IF appended
           THEN /\ sheet' = Append(sheet, [id |-> thread.id, row |-> thread.row])
                /\ UNCHANGED dropped
           ELSE /\ dropped' = dropped \cup {thread.id}
                /\ UNCHANGED sheet

BackgroundSave ==
    /\ \E i \in 1..Len(pending), appended \in BOOLEAN :
          save_to_google_sheet_background(i, appended)
    /\ UNCHANGED <<session, effects, ghosts, started>>

\* the user's actions interleaved with the steps of the started threads
UserAction == steps < MaxSinkSteps /\ Next

NextSink == UserAction \/ BackgroundSave

\* first load of the page
InitSink == Init /\ question_count = 1

SpecSink == InitSink /\ [][NextSink]_vars

(* ---------------------------------------------------------------------- *)
(* Submissions at every question of the session                             *)
(* ---------------------------------------------------------------------- *)
\* the student has clicked Next Question k-1 times, for any k up to 25
InitTiers ==
    \E k \in 1..TotalQuestions, r \in SourceOutcomes :
        LET parsed == ParseQuestion(r.text)
            ok == ~r.raised /\ parsed.ok
        IN  /\ question_text = IF ok THEN parsed.q ELSE <<>>
            /\ answer_text = IF ok THEN parsed.a ELSE Unset
            /\ reveal_answer = IF ok THEN FALSE ELSE Unset
            /\ user_input = <<>>
            /\ feedback = NoFeedback
            /\ is_finished = FALSE
            /\ score_correct = 0
            /\ question_count = k
            /\ history_list = <<>>
            /\ last_logged = <<>>
            /\ opt_grade = "Year 7 (KS3)"
            /\ opt_topic = "Place Value & Rounding"
            /\ last_op = IF k = 1 THEN "Init" ELSE "NextQuestion"
            /\ source_result = IF ok THEN "ok" ELSE "failed"
            /\ oracle_call = NoOracleCall
            /\ spawned = <<>>
            /\ history_sigs = <<>>
            /\ answered = FALSE
            /\ logged_under = {}
            /\ pending = <<>>
            /\ sheet = <<>>
            /\ dropped = {}
            /\ started = 0
            /\ correct_verdicts = 0
            /\ steps = 0

NextTiers == steps < MaxTierSteps /\ (Submit \/ NextQuestion)

SpecTiers == InitTiers /\ [][NextTiers]_vars

(* ---------------------------------------------------------------------- *)
(* Properties                                                               *)
(* ---------------------------------------------------------------------- *)
\* the last handler was a Submit that produced a verdict
SubmitGraded == last_op = "Submit" /\ user_input # <<>>

\* C1: within one session at most one Attempt is appended to history_list
\* (and handed to the History Sink) per DedupKey: no two entries of the
\* history carry the same signature.
C1_OneAttemptPerDedupKey ==
    \A i, j \in 1..Len(history_sigs) :
        history_sigs[i] = history_sigs[j] => i = j

\* the verdict the documented parsing gives a reply: INCORRECT is looked for
\* first, then CORRECT, anything else is Incorrect
DocumentedVerdict(reply) ==
    LET text == Upper(Strip(reply))
    IN  IF Contains(text, IncorrectToken) THEN "Incorrect"
        ELSE IF Contains(text, CorrectToken) THEN "Correct"
        ELSE "Incorrect"

\* C2: when the Grading Oracle was consulted and replied, the verdict of the
\* Submit is the one obtained by checking the reply for INCORRECT first and
\* then for CORRECT, every other reply giving Incorrect.
C2_VerdictFollowsReply ==
    (SubmitGraded /\ oracle_call.called /\ ~oracle_call.raised) =>
        (feedback = CorrectFeedback
            <=> DocumentedVerdict(oracle_call.reply) = "Correct")

\* C3 as stated: score_correct <= question_count - 1 in every reachable state.
C3_ScoreBelowIndex == score_correct <= question_count - 1

\* C3 amended: score_correct is the number of Submits that resolved Correct
\* since the session was started or restarted; it is zero before the first
\* of them and is not bounded by question_count - 1.
C3_ScoreCountsCorrectVerdicts ==
    /\ score_correct = correct_verdicts
    /\ (history_list = <<>> /\ last_logged = <<>>) => score_correct = 0

C3_Witness ==
    /\ SubmitGraded
    /\ feedback = CorrectFeedback
    /\ question_count = 1
    /\ score_correct = 1

\* C4: 1 <= question_count <= totalQuestions + 1 always, and is_finished
\* holds exactly when question_count > totalQuestions; so Next Question at
\* question 25 finishes the session and no Next Question goes past 26.
C4_IndexRangeAndFinished ==
    /\ question_count \in 1..(TotalQuestions + 1)
    /\ is_finished <=> question_count > TotalQuestions

C4_Witness ==
    /\ last_op = "NextQuestion"
    /\ question_count = TotalQuestions + 1
    /\ is_finished

\* C5: the first Submit that produces a verdict for a newly presented
\* question appends exactly one Attempt to history_list and hands exactly
\* one row to the History Sink.
C5_FirstVerdictIsLogged ==
    [][(~answered /\ last_op' = "Submit" /\ user_input' # <<>>) =>
          /\ Len(history_list') = Len(history_list) + 1
          /\ Len(spawned') = 1]_vars

\* C6: for a question whose generated text lacked the delimiter (its
\* reference answer is the sentinel), a Submit never yields Correct and never
\* sends the sentinel to the Grading Oracle as the reference answer.
C6_UnparseableIsNeverGraded ==
    (SubmitGraded /\ answer_text = ParseErrorAnswer) =>
        /\ feedback # CorrectFeedback
        /\ ~(oracle_call.called /\ oracle_call.reference = ParseErrorAnswer)

\* C7: when the Question Source fails during an advance triggered by Next
\* Question or a parameter change, question text, reference answer and
\* question_count all keep the values they had before the action.
C7_FailedAdvanceChangesNothing ==
    [][(source_result' = "failed"
          /\ last_op' \in {"NextQuestion", "ParameterChange"}) =>
          /\ question_text' = question_text
          /\ answer_text' = answer_text
          /\ question_count' = question_count]_vars

\* C8: a Submit whose non-empty answer equals the reference answer after
\* trimming both yields Correct, and the Grading Oracle is not invoked.
C8_ExactMatchIsCorrect ==
    (SubmitGraded /\ Strip(user_input) = Strip(answer_text)) =>
        /\ feedback = CorrectFeedback
        /\ ~oracle_call.called

C8_Witness ==
    /\ SubmitGraded
    /\ Strip(user_input) = Strip(answer_text)
    /\ user_input # answer_text
    /\ feedback = CorrectFeedback

\* C9: a Submit with an empty answer only sets the feedback to the
\* needs-input text: the Grading Oracle is not invoked, no background write is
\* spawned, and score_correct, history_list, last_logged, question_count and
\* reveal_answer keep their values.
C9_EmptySubmitOnlySetsFeedback ==
    [][(last_op' = "Submit" /\ user_input' = <<>>) =>
          /\ feedback' = NeedsInput
          /\ ~oracle_call'.called
          /\ spawned' = <<>>
          /\ UNCHANGED <<score_correct, history_list, last_logged,
                         question_count, reveal_answer>>]_vars

C9_Witness ==
    /\ last_op = "Submit"
    /\ user_input = <<>>
    /\ feedback = NeedsInput
    /\ score_correct > 0
    /\ history_list # <<>>

\* C10: once question_count > 25, every action other than Restart leaves
\* is_finished true and question_count and score_correct unchanged, and does
\* not invoke the Question Source.
C10_FinishedIsAbsorbing ==
    [][(question_count > TotalQuestions /\ last_op' # "Restart") =>
          /\ is_finished'
          /\ question_count' = question_count
          /\ score_correct' = score_correct
          /\ source_result' = "not_called"]_vars

C10_Witness ==
    /\ is_finished
    /\ question_count > TotalQuestions
    /\ last_op = "ParameterChange"
    /\ score_correct > 0

\* C11: Restart, from any state, leaves question_count = 1, score_correct = 0,
\* an empty history_list and is_finished false, and has called
\* get_new_question for question 1 (the Question Source was invoked).
C11_RestartResets ==
    last_op = "Restart" =>
        /\ question_count = 1
        /\ score_correct = 0
        /\ history_list = <<>>
        /\ ~is_finished
        /\ source_result \in {"ok", "failed"}

\* Restart pressed in Finished after an answer had been logged (the
\* generation failed, so the text shown is still the completion message)
C11_Witness ==
    /\ last_op = "Restart"
    /\ question_text = FinishedMsg
    /\ started > 0
    /\ ~is_finished
    /\ question_count = 1

\* the user's buttons are available whatever the writers are doing
HandlersEnabled ==
    /\ ENABLED Restart
    /\ ENABLED ParameterChange
    /\ ~is_finished => ENABLED NextQuestion
    /\ (~is_finished /\ answer_text # Unset) => ENABLED Submit

\* C12: Submit only starts a writer and returns (the row is neither in the
\* sheet nor dropped when it returns); pending or failed writes never disable
\* Submit, Next Question, a parameter change or Restart; and a step of a
\* writer, in particular a failed write, changes none of score_correct,
\* question_count, history_list, last_logged and is_finished.
C12_WritersNeverBlock ==
    /\ []((steps < MaxSinkSteps /\ (pending # <<>> \/ dropped # {}))
            => HandlersEnabled)
    /\ [][/\ (steps' # steps /\ spawned' # <<>>) =>
                /\ sheet' = sheet
                /\ dropped' = dropped
                /\ Len(pending') = Len(pending) + 1
          /\ (steps' = steps) =>
                UNCHANGED <<score_correct, question_count, history_list,
                            last_logged, is_finished>>]_vars

\* the student is at question N+1 while the write of question N is pending
C12_Witness ==
    /\ pending # <<>>
    /\ last_op = "NextQuestion"
    /\ ~is_finished
    /\ question_count = pending[1].at + 1

\* C13, as stated: whenever the Grading Oracle call raises, the Submit
\* resolves to Incorrect, score_correct is not incremented and an Attempt
\* with Result Incorrect is appended to history_list and handed to a writer.
C13_FailedOracleAlwaysLogs ==
    [][(last_op' = "Submit" /\ oracle_call'.called /\ oracle_call'.raised) =>
          /\ feedback' = IncorrectFeedback(answer_text)
          /\ score_correct' = score_correct
          /\ Len(history_list') = Len(history_list) + 1
          /\ history_list'[Len(history_list')].Result = "Incorrect"
          /\ Len(spawned') = 1]_vars

\* C13, amended: when the Grading Oracle call raises, the Submit resolves to
\* Incorrect: score_correct is not incremented, question_count and
\* is_finished are unchanged, and the Attempt is logged with Result Incorrect
\* when its key differs from last_logged; a re-submission (key equal to
\* last_logged) logs nothing, as for any other verdict.
C13_OracleFailureIsIncorrect ==
    [][(last_op' = "Submit" /\ oracle_call'.called /\ oracle_call'.raised) =>
          /\ feedback' = IncorrectFeedback(answer_text)
          /\ score_correct' = score_correct
          /\ question_count' = question_count
          /\ is_finished' = is_finished
          /\ (last_logged # Signature(question_count, question_text)) =>
                /\ Len(history_list') = Len(history_list) + 1
                /\ history_list'[Len(history_list')].Result = "Incorrect"
                /\ Len(spawned') = 1
                /\ spawned'[1].status = "Incorrect"
          /\ (last_logged = Signature(question_count, question_text)) =>
                /\ history_list' = history_list
                /\ spawned' = <<>>]_vars

C13_Witness ==
    /\ last_op = "Submit"
    /\ oracle_call.called
    /\ oracle_call.raised
    /\ spawned # <<>>
    /\ history_list # <<>>
    /\ history_list[Len(history_list)].Result = "Incorrect"
    /\ ~is_finished

\* C14: a parameter change leaves question_count, score_correct, history_list
\* and is_finished unchanged and calls get_new_question for the current
\* question (the Question Source is invoked unless the session is finished).
C14_ParameterChangeKeepsProgress ==
    [][(last_op' = "ParameterChange") =>
          /\ UNCHANGED <<question_count, score_correct, history_list,
                         is_finished>>
          /\ (question_count <= TotalQuestions) =>
                source_result' \in {"ok", "failed"}]_vars

C14_Witness ==
    /\ last_op = "ParameterChange"
    /\ source_result = "ok"
    /\ score_correct > 0
    /\ history_list # <<>>
    /\ question_count > 1

\* C15: a Submit whose DedupKey equals last_logged appends no Attempt to
\* history_list and starts no History Sink write, whatever its verdict.
C15_ResubmissionLogsNothing ==
    [][(last_op' = "Submit" /\ user_input' # <<>>
          /\ last_logged = Signature(question_count, question_text)) =>
          /\ history_list' = history_list
          /\ spawned' = <<>>
          /\ started' = started]_vars

\* two Submits in a row with different verdicts: only the first is logged
C15_Witness ==
    /\ steps = 2
    /\ SubmitGraded
    /\ feedback = CorrectFeedback
    /\ spawned = <<>>
    /\ Len(history_list) = 1
    /\ history_list[1].Result = "Incorrect"

\* C16: the difficulty recorded for an Attempt at question 1..7 is Easy, at
\* 8..15 Medium and at 16..25 Hard, and every question 1..25 has a tier.
C16_DifficultyBands ==
    /\ \A i \in 1..Len(history_list) :
          LET e == history_list[i]
          IN  /\ e.Q \in 1..7 => e.Difficulty = "Easy (Foundation)"
              /\ e.Q \in 8..15 => e.Difficulty = "Medium (Crossover)"
              /\ e.Q \in 16..25 => e.Difficulty = "Hard (Higher)"
    /\ ~is_finished =>
          get_current_difficulty(question_count) \in
              {"Easy (Foundation)", "Medium (Crossover)", "Hard (Higher)"}

C16_Witness ==
    /\ Len(history_list) = 2
    /\ history_list[1].Q = 15
    /\ history_list[1].Difficulty = "Medium (Crossover)"
    /\ history_list[2].Q = 16
    /\ history_list[2].Difficulty = "Hard (Higher)"

\* C17: after a Submit that yields a verdict reveal_answer is true, also when
\* the log write was skipped, and on Incorrect the feedback carries the
\* reference answer.
C17_VerdictRevealsAnswer ==
    SubmitGraded =>
        /\ reveal_answer = TRUE
        /\ feedback # CorrectFeedback => feedback.answer = answer_text

\* the threads whose row is in the sheet, and those still running
SheetIds == {sheet[i].id : i \in 1..Len(sheet)}

PendingIds == {pending[i].id : i \in 1..Len(pending)}

\* C18: every Attempt appended to history_list starts exactly one writer; a
\* writer appends at most one row and is never retried, so the sheet never
\* holds more rows than Attempts were created, and the row of a failed writer
\* is never in the sheet afterwards.
C18_AtMostOnceDelivery ==
    /\ [](/\ Cardinality(SheetIds) = Len(sheet)
          /\ Cardinality(PendingIds) = Len(pending)
          /\ SheetIds \cap dropped = {}
          /\ PendingIds \cap (SheetIds \cup dropped) = {}
          /\ SheetIds \cup dropped \cup PendingIds = 1..started
          /\ Len(sheet) <= started)
    /\ [][/\ (Len(history_list') = Len(history_list) + 1)
                <=> (started' = started + 1)
          /\ started' \in {started, started + 1}
          /\ Len(sheet') <= Len(sheet) + 1]_vars

\* one writer failed and another appended its row
C18_Witness ==
    /\ dropped # {}
    /\ sheet # <<>>
    /\ pending = <<>>
    /\ started = 2

\* C19: a generated question is logged as an Attempt under at most one
\* question_count.
C19_OneIndexPerQuestion == Cardinality(logged_under) <= 1

\* C20: score_correct is the number of entries of history_list whose Result
\* is Correct, and never exceeds 25.
C20_ScoreMatchesHistory ==
    /\ score_correct =
          Cardinality({i \in 1..Len(history_list) :
                          history_list[i].Result = "Correct"})
    /\ score_correct <= TotalQuestions

====
